---- MODULE Spec2Model ----
(***************************************************************************)
(* Day 6 guard patrol (src/jtornetta/06/06.py): simulate_guard,            *)
(* find_loop_positions and solve_puzzle as a state machine.  Spec runs     *)
(* them on well-formed grids, SpecInput runs solve_puzzle on any input,    *)
(* SpecText from the text of the input file, SpecScenario on named grids   *)
(* and SpecMarkers on grids with two markers.                              *)
(*                                                                         *)
(* Day 9 disk compaction (src/jtornetta/Day 09/09.py): parse_disk_map and  *)
(* compact_files, in SpecDisk.  Day 14 robots (src/jtornetta/14/14.py):    *)
(* Robot.move and Robot.get_position_at, in SpecRobot.  A program that a   *)
(* specification does not run stays idle.                                  *)
(*                                                                         *)
(* A grid is a sequence of rows, a row a sequence of one-character         *)
(* strings, as List[str] in the source; coordinates are 0-based, so the    *)
(* cell (x, y) is grid[y + 1][x + 1].  None is modelled by <<>>.           *)
(***************************************************************************)
EXTENDS Integers, Sequences, FiniteSets, TLC

\* Bounds: the initial grids are Width columns by Height rows.
Width == 4
Height == 3

None == <<>>

Markers == {"^", ">", "v", "<"}

VARIABLES
    grid,               \* the puzzle input, List[str]
    site,               \* the call of simulate_guard in progress: "direct" (called from
                        \* outside), "part1" (06.py:161), "baseline" (:120), "candidate" (:148)
    pc,                 \* "read" (at 06.py:160), "entry" (at :57), "loop" (at :78), "returned",
                        \* "pick" (at :146), "done", "raised"
    block_pos,          \* simulate_guard: the optional obstruction of this call
    x, y, direction,    \* simulate_guard: the guard
    visited_positions,  \* simulate_guard: set of <<x, y>>
    state_history,      \* simulate_guard: set of <<x, y, direction>>
    steps,              \* executions of the loop body in this call
    ret,                \* the last value returned by simulate_guard, or None
    first_ret,          \* solve_puzzle: what its own call of simulate_guard returned
    original_visited,   \* find_loop_positions
    start_pos,          \* find_loop_positions
    positions_to_check, \* find_loop_positions
    pending,            \* find_loop_positions: elements the last for loop has not yielded yet
    simulated,          \* history: the obstructions find_loop_positions has simulated
    loop_count,         \* find_loop_positions
    part1, part2,       \* solve_puzzle
    error,              \* the exception that ended the program, or None
    text,               \* 06.py solve_puzzle: the text read from the input file
    \* Day 09/09.py
    disk_map,           \* the digits of the disk map
    whole_file,         \* the parameter part2 of parse_disk_map
    files,              \* sequence of <<position, size, file_id>>
    free_spaces,        \* sequence of <<position, size>>
    final_layout,       \* sequence of file ids and None; cell p is final_layout[p + 1]
    file_index,         \* compact_files: index in files of the file of the outer loop
    space_index,        \* compact_files: index in free_spaces of the space found, or None
    block_i,            \* compact_files: i of the innermost loop
    pc9,                \* "idle", "parse", "next", "moving", "done", "failed"
    \* 14/14.py
    robot,              \* the Robot: [p_x, p_y, v_x, v_y]
    tiles,              \* the list passed to move, as index :> count for the non-zero counts
    time,               \* the argument of get_position_at
    answer,             \* what get_position_at returned, or None
    moves,              \* calls of move so far
    pc14                \* "idle", "ask", "move", "done"

simVars == <<block_pos, x, y, direction, visited_positions, state_history, steps>>
searchVars == <<original_visited, start_pos, positions_to_check, pending, simulated,
                loop_count>>
day9Vars == <<disk_map, whole_file, files, free_spaces, final_layout, file_index,
              space_index, block_i, pc9>>
day14Vars == <<robot, tiles, time, answer, moves, pc14>>
day6Vars == <<grid, site, pc, simVars, ret, first_ret, searchVars, part1, part2, error>>
otherVars == <<text, day9Vars, day14Vars>>
vars == <<day6Vars, text, day9Vars, day14Vars>>

\* The state of a program that is not running.
Idle9 ==
    /\ disk_map = <<>>
    /\ whole_file = FALSE
    /\ files = <<>>
    /\ free_spaces = <<>>
    /\ final_layout = <<>>
    /\ file_index = 0
    /\ space_index = None
    /\ block_i = 0
    /\ pc9 = "idle"

Idle14 ==
    /\ robot = None
    /\ tiles = <<>>
    /\ time = 0
    /\ answer = None
    /\ moves = 0
    /\ pc14 = "idle"

----------------------------------------------------------------------------
\* Pure helpers

width(g) == Len(g[1])
height(g) == Len(g)

Cell(g, cx, cy) == g[cy + 1][cx + 1]

get_next_position(px, py, dir) ==
    CASE dir = "^" -> <<px + 0, py + (-1)>>
      [] dir = "v" -> <<px + 0, py + 1>>
      [] dir = "<" -> <<px + (-1), py + 0>>
      [] dir = ">" -> <<px + 1, py + 0>>

\* Mutant: the quarter turn goes the other way round.
turn_left(dir) ==
    CASE dir = "^" -> "<"
      [] dir = "<" -> "v"
      [] dir = "v" -> ">"
      [] dir = ">" -> "^"

turn_right(dir) ==
    CASE dir = "^" -> ">"
      [] dir = ">" -> "v"
      [] dir = "v" -> "<"
      [] dir = "<" -> "^"

\* 0 <= next_x < width and 0 <= next_y < height
InBounds(g, cx, cy) == 0 <= cx /\ cx < width(g) /\ 0 <= cy /\ cy < height(g)

\* grid[cy][cx] exists, for 0 <= cx and 0 <= cy < len(grid): row cy is long enough.
HasCell(g, cx, cy) == cx < Len(g[cy + 1])

\* Mutant: a position whose coordinates are all zero counts as false.
TruthyNonzero(bp) == bp # None /\ bp # <<0, 0>>

\* Python truth value of block_pos: None is false, a pair of ints is true
\* whatever the ints are.
Truthy(bp) == bp # None

\* Mutant: only the grid blocks, the obstruction of the call is ignored.
is_blockedGridOnly(g, nx, ny, bp) == Cell(g, nx, ny) = "#"

\* (grid[next_y][next_x] == '#') or (block_pos and (next_x, next_y) == block_pos)
is_blocked(g, nx, ny, bp) ==
    Cell(g, nx, ny) = "#" \/ (Truthy(bp) /\ <<nx, ny>> = bp)

\* Mutant: a visit is recognised by its position alone, whatever the heading.
SeenPosition(new_state, history) ==
    \E h \in history : h[1] = new_state[1] /\ h[2] = new_state[2]

\* new_state in state_history (06.py:92 and :100)
Seen(new_state, history) == new_state \in history

\* The first marker in row-major order, as <<x, y, char>>; None when there is none.
\* Mutant: the search does not stop at the first marker, the last one wins.
FindStartLast(g) ==
    LET cells == UNION {{<<i - 1, j - 1>> : i \in 1 .. Len(g[j])} : j \in 1 .. Len(g)}
        marks == {c \in cells : Cell(g, c[1], c[2]) \in Markers}
    IN IF marks = {} THEN None
       ELSE LET f == CHOOSE c \in marks :
                        \A d \in marks : c[2] > d[2] \/ (c[2] = d[2] /\ c[1] >= d[1])
            IN <<f[1], f[2], Cell(g, f[1], f[2])>>

FindStart(g) ==
    LET cells == UNION {{<<i - 1, j - 1>> : i \in 1 .. Len(g[j])} : j \in 1 .. Len(g)}
        marks == {c \in cells : Cell(g, c[1], c[2]) \in Markers}
    IN IF marks = {} THEN None
       ELSE LET f == CHOOSE c \in marks :
                        \A d \in marks : c[2] < d[2] \/ (c[2] = d[2] /\ c[1] <= d[1])
            IN <<f[1], f[2], Cell(g, f[1], f[2])>>

----------------------------------------------------------------------------
\* Initial grids: rectangular, exactly one start marker anywhere with any
\* heading, and '#' on any subset of BlockSites, cells around the two middle
\* cells (1, 1) and (2, 1) of the second row.  With all of them blocked the two
\* cells are a closed corridor the guard patrols for ever; subsets open it.

AllCells == (0 .. Width - 1) \X (0 .. Height - 1)

BlockSites == {<<1, 0>>, <<0, 1>>, <<3, 1>>, <<1, 2>>, <<2, 2>>}

MkGrid(s, d, B) ==
    [yy \in 1 .. Height |->
        [xx \in 1 .. Width |->
            IF <<xx - 1, yy - 1>> = s THEN d
            ELSE IF <<xx - 1, yy - 1>> \in B THEN "#" ELSE "."]]

Grids ==
    {MkGrid(s, d, B) : s \in AllCells, d \in Markers,
                        B \in SUBSET (BlockSites \cap AllCells)}

----------------------------------------------------------------------------
\* simulate_guard

\* Mutant: the two sets outlive the call, the new call adds to them.
CallSimulateStale(bp) ==
    LET st == FindStart(grid)
    IN /\ grid' = grid
       /\ block_pos' = bp
       /\ x' = st[1]
       /\ y' = st[2]
       /\ direction' = st[3]
       /\ visited_positions' = visited_positions \cup {<<st[1], st[2]>>}
       /\ state_history' = state_history \cup {<<st[1], st[2], st[3]>>}
       /\ steps' = 0

\* Mutant: the obstruction is written into the grid.
CallSimulateInPlace(bp) ==
    LET st == FindStart(grid)
    IN /\ grid' = (IF bp = None THEN grid
                   ELSE [grid EXCEPT ![bp[2] + 1][bp[1] + 1] = "#"])
       /\ block_pos' = bp
       /\ x' = st[1]
       /\ y' = st[2]
       /\ direction' = st[3]
       /\ visited_positions' = {<<st[1], st[2]>>}
       /\ state_history' = {<<st[1], st[2], st[3]>>}
       /\ steps' = 0

\* Mutant: visited_positions starts empty.
CallSimulateUnseeded(bp) ==
    LET st == FindStart(grid)
    IN /\ grid' = grid
       /\ block_pos' = bp
       /\ x' = st[1]
       /\ y' = st[2]
       /\ direction' = st[3]
       /\ visited_positions' = {}
       /\ state_history' = {<<st[1], st[2], st[3]>>}
       /\ steps' = 0

\* 06.py:41 and 57-76: bind the parameters, find the start, seed both sets,
\* place the guard.  The grid is read, never assigned.  Without a marker
\* start_x, start_y and start_dir keep the None of lines 61-62.
CallSimulate(bp) ==
    LET st == IF FindStart(grid) = None THEN <<None, None, None>> ELSE FindStart(grid)
    IN /\ grid' = grid
       /\ block_pos' = bp
       /\ x' = st[1]
       /\ y' = st[2]
       /\ direction' = st[3]
       /\ visited_positions' = {<<st[1], st[2]>>}
       /\ state_history' = {<<st[1], st[2], st[3]>>}
       /\ steps' = 0

Next_pos == get_next_position(x, y, direction)

\* Mutant: the guard is moved first and the bounds are tested afterwards.
StepExitAfterMove ==
    /\ pc = "loop"
    /\ direction \in Markers
    /\ ~InBounds(grid, Next_pos[1], Next_pos[2])
    /\ steps' = steps + 1
    /\ x' = Next_pos[1]
    /\ y' = Next_pos[2]
    /\ ret' = <<visited_positions, FALSE>>
    /\ pc' = "returned"
    /\ UNCHANGED <<grid, site, block_pos, direction, visited_positions,
                   state_history, first_ret, searchVars, part1, part2>>
    /\ UNCHANGED <<error, otherVars>>

\* 06.py:82-83: the next step goes off the grid.
StepExit ==
    /\ pc = "loop"
    /\ direction \in Markers
    /\ ~InBounds(grid, Next_pos[1], Next_pos[2])
    /\ steps' = steps + 1
    /\ ret' = <<visited_positions, FALSE>>
    /\ pc' = "returned"
    /\ UNCHANGED <<grid, site, block_pos, x, y, direction, visited_positions,
                   state_history, first_ret, searchVars, part1, part2>>
    /\ UNCHANGED <<error, otherVars>>

\* Mutant: after the turn the guard also steps into the cell now ahead, if free.
StepTurnAndMove ==
    /\ pc = "loop"
    /\ direction \in Markers
    /\ InBounds(grid, Next_pos[1], Next_pos[2])
    /\ HasCell(grid, Next_pos[1], Next_pos[2])
    /\ is_blocked(grid, Next_pos[1], Next_pos[2], block_pos)
    /\ steps' = steps + 1
    /\ direction' = turn_right(direction)
    /\ LET n2 == get_next_position(x, y, direction')
           free == InBounds(grid, n2[1], n2[2]) /\ ~is_blocked(grid, n2[1], n2[2], block_pos)
       IN /\ x' = (IF free THEN n2[1] ELSE x)
          /\ y' = (IF free THEN n2[2] ELSE y)
    /\ visited_positions' = visited_positions \cup {<<x', y'>>}
    /\ LET new_state == <<x', y', direction'>>
       IN IF Seen(new_state, state_history)
          THEN /\ ret' = <<visited_positions', TRUE>>
               /\ pc' = "returned"
               /\ UNCHANGED state_history
          ELSE /\ state_history' = state_history \cup {new_state}
               /\ UNCHANGED <<ret, pc>>
    /\ UNCHANGED <<grid, site, block_pos, first_ret, searchVars, part1, part2>>
    /\ UNCHANGED <<error, otherVars>>

\* Mutant: a turn is neither checked against the history nor recorded in it.
StepTurnNoHistory ==
    /\ pc = "loop"
    /\ direction \in Markers
    /\ InBounds(grid, Next_pos[1], Next_pos[2])
    /\ HasCell(grid, Next_pos[1], Next_pos[2])
    /\ is_blocked(grid, Next_pos[1], Next_pos[2], block_pos)
    /\ steps' = steps + 1
    /\ direction' = turn_right(direction)
    /\ UNCHANGED <<grid, site, pc, block_pos, x, y, visited_positions, state_history,
                   ret, first_ret, searchVars, part1, part2>>
    /\ UNCHANGED <<error, otherVars>>

\* Mutant: the recorded state carries the step count, so no state ever repeats.
StepTurnRecordsStep ==
    /\ pc = "loop"
    /\ direction \in Markers
    /\ InBounds(grid, Next_pos[1], Next_pos[2])
    /\ HasCell(grid, Next_pos[1], Next_pos[2])
    /\ is_blocked(grid, Next_pos[1], Next_pos[2], block_pos)
    /\ steps' = steps + 1
    /\ direction' = turn_right(direction)
    /\ state_history' = state_history \cup {<<x, y, direction', steps'>>}
    /\ UNCHANGED <<grid, site, pc, block_pos, x, y, visited_positions,
                   ret, first_ret, searchVars, part1, part2>>
    /\ UNCHANGED <<error, otherVars>>

\* 06.py:88-94: blocked ahead, turn right.
StepTurn ==
    /\ pc = "loop"
    /\ direction \in Markers
    /\ InBounds(grid, Next_pos[1], Next_pos[2])
    /\ HasCell(grid, Next_pos[1], Next_pos[2])
    /\ is_blocked(grid, Next_pos[1], Next_pos[2], block_pos)
    /\ steps' = steps + 1
    /\ direction' = turn_right(direction)
    /\ LET new_state == <<x, y, direction'>>
       IN IF Seen(new_state, state_history)
          THEN /\ ret' = <<visited_positions, TRUE>>
               /\ pc' = "returned"
               /\ UNCHANGED state_history
          ELSE /\ state_history' = state_history \cup {new_state}
               /\ UNCHANGED <<ret, pc>>
    /\ UNCHANGED <<grid, site, block_pos, x, y, visited_positions,
                   first_ret, searchVars, part1, part2>>
    /\ UNCHANGED <<error, otherVars>>

\* Mutant: a move is checked against the history but not recorded in it.
StepMoveNoRecord ==
    /\ pc = "loop"
    /\ direction \in Markers
    /\ InBounds(grid, Next_pos[1], Next_pos[2])
    /\ HasCell(grid, Next_pos[1], Next_pos[2])
    /\ ~is_blocked(grid, Next_pos[1], Next_pos[2], block_pos)
    /\ steps' = steps + 1
    /\ x' = Next_pos[1]
    /\ y' = Next_pos[2]
    /\ visited_positions' = visited_positions \cup {<<x', y'>>}
    /\ IF Seen(<<x', y', direction>>, state_history)
       THEN /\ ret' = <<visited_positions', TRUE>>
            /\ pc' = "returned"
       ELSE UNCHANGED <<ret, pc>>
    /\ UNCHANGED <<grid, site, block_pos, direction, state_history,
                   first_ret, searchVars, part1, part2>>
    /\ UNCHANGED <<error, otherVars>>

\* 06.py:95-102: free ahead, move forward.
StepMove ==
    /\ pc = "loop"
    /\ direction \in Markers
    /\ InBounds(grid, Next_pos[1], Next_pos[2])
    /\ HasCell(grid, Next_pos[1], Next_pos[2])
    /\ ~is_blocked(grid, Next_pos[1], Next_pos[2], block_pos)
    /\ steps' = steps + 1
    /\ x' = Next_pos[1]
    /\ y' = Next_pos[2]
    /\ visited_positions' = visited_positions \cup {<<x', y'>>}
    /\ LET new_state == <<x', y', direction>>
       IN IF Seen(new_state, state_history)
          THEN /\ ret' = <<visited_positions', TRUE>>
               /\ pc' = "returned"
               /\ UNCHANGED state_history
          ELSE /\ state_history' = state_history \cup {new_state}
               /\ UNCHANGED <<ret, pc>>
    /\ UNCHANGED <<grid, site, block_pos, direction,
                   first_ret, searchVars, part1, part2>>
    /\ UNCHANGED <<error, otherVars>>

\* A call of simulate_guard from outside the module returns to its caller.
DirectReturn ==
    /\ pc = "returned"
    /\ site = "direct"
    /\ pc' = "done"
    /\ UNCHANGED <<grid, site, simVars, ret, first_ret, searchVars, part1, part2>>
    /\ UNCHANGED otherVars
    /\ UNCHANGED <<error, otherVars>>

----------------------------------------------------------------------------
\* solve_puzzle and find_loop_positions

\* 06.py:161-163 and 116-120: part1 is taken, find_loop_positions starts its
\* own run of the unmodified grid.
Part1Return ==
    /\ pc = "returned"
    /\ site = "part1"
    /\ first_ret' = ret
    /\ part1' = Cardinality(ret[1])
    /\ CallSimulate(None)
    /\ site' = "baseline"
    /\ pc' = "loop"
    /\ UNCHANGED <<ret, searchVars, part2>>
    /\ UNCHANGED <<error, otherVars>>

\* Mutant: the start position is not excluded.
NeighboursWithStart(g, visited, start) ==
    {c \in {<<v[1] + d[1], v[2] + d[2]>> :
                v \in visited, d \in {<<0, 1>>, <<1, 0>>, <<0, -1>>, <<-1, 0>>}} :
        /\ InBounds(g, c[1], c[2])
        /\ Cell(g, c[1], c[2]) # "#"}

\* 06.py:137-143: the in-bounds, non-'#', non-start 4-neighbours of the path.
Neighbours(g, visited, start) ==
    {c \in {<<v[1] + d[1], v[2] + d[2]>> :
                v \in visited, d \in {<<0, 1>>, <<1, 0>>, <<0, -1>>, <<-1, 0>>}} :
        /\ InBounds(g, c[1], c[2])
        /\ Cell(g, c[1], c[2]) # "#"
        /\ c # start}

\* 06.py:122-130: find_loop_positions looks for the start itself, row by row
\* from row j on; in a row the first marker from the left ends the search.
RECURSIVE FindStartPos(_, _)
FindStartPos(g, j) ==
    IF j > Len(g) THEN None
    ELSE LET hits == {i \in 1 .. Len(g[j]) : g[j][i] \in Markers}
         IN IF hits = {} THEN FindStartPos(g, j + 1)
            ELSE <<(CHOOSE i \in hits : \A k \in hits : i <= k) - 1, j - 1>>

\* 06.py:137-139: the 4-neighbours of the path that pass the bounds test.
Around(g, visited) ==
    {c \in {<<v[1] + d[1], v[2] + d[2]>> :
                v \in visited, d \in {<<0, 1>>, <<1, 0>>, <<0, -1>>, <<-1, 0>>}} :
        InBounds(g, c[1], c[2])}

\* 06.py:120-143
BaselineReturn ==
    /\ pc = "returned"
    /\ site = "baseline"
    /\ \A c \in Around(grid, ret[1]) : HasCell(grid, c[1], c[2])
    /\ original_visited' = ret[1]
    /\ start_pos' = FindStartPos(grid, 1)
    /\ loop_count' = 0
    /\ positions_to_check' = Neighbours(grid, original_visited', start_pos')
    /\ pending' = positions_to_check'
    /\ simulated' = {}
    /\ pc' = "pick"
    /\ UNCHANGED <<grid, site, simVars, ret, first_ret, part1, part2>>
    /\ UNCHANGED <<error, otherVars>>

\* Mutant: the filter of line 147 is missing.
NextCandidateUnfiltered(test_pos) ==
    /\ pc = "pick"
    /\ test_pos \in pending
    /\ pending' = pending \ {test_pos}
    /\ simulated' = simulated \cup {test_pos}
    /\ grid' = grid
    /\ block_pos' = test_pos
    /\ x' = FindStart(grid)[1]
    /\ y' = FindStart(grid)[2]
    /\ direction' = FindStart(grid)[3]
    /\ visited_positions' = {<<x', y'>>}
    /\ state_history' = {<<x', y', direction'>>}
    /\ steps' = 0
    /\ site' = "candidate"
    /\ pc' = "loop"
    /\ UNCHANGED <<ret, first_ret, original_visited, start_pos,
                   positions_to_check, loop_count, part1, part2>>
    /\ UNCHANGED <<error, otherVars>>

\* 06.py:146-148: the for loop yields test_pos, in whatever order the set
\* iterates.  An element that fails the filter of line 147 changes nothing, so
\* its iteration is folded into the action that follows it.
NextCandidate(test_pos) ==
    /\ pc = "pick"
    /\ test_pos \in pending
    /\ test_pos \in original_visited
    /\ pending' = pending \ {test_pos}
    /\ simulated' = simulated \cup {test_pos}
    /\ CallSimulate(test_pos)
    /\ site' = "candidate"
    /\ pc' = "loop"
    /\ UNCHANGED <<ret, first_ret, original_visited, start_pos,
                   positions_to_check, loop_count, part1, part2>>
    /\ UNCHANGED <<error, otherVars>>

\* Mutant: the test of line 149 is inverted, runs that leave are counted.
CandidateReturnCountsExits ==
    /\ pc = "returned"
    /\ site = "candidate"
    /\ loop_count' = (IF ret[2] THEN loop_count ELSE loop_count + 1)
    /\ pc' = "pick"
    /\ UNCHANGED <<grid, site, simVars, ret, first_ret, original_visited, start_pos,
                   positions_to_check, pending, simulated, part1, part2>>
    /\ UNCHANGED <<error, otherVars>>

\* Mutant: the outcome is assigned to the counter, not added to it.
CandidateReturnLast ==
    /\ pc = "returned"
    /\ site = "candidate"
    /\ loop_count' = (IF ret[2] THEN 1 ELSE 0)
    /\ pc' = "pick"
    /\ UNCHANGED <<grid, site, simVars, ret, first_ret, original_visited, start_pos,
                   positions_to_check, pending, simulated, part1, part2>>
    /\ UNCHANGED <<error, otherVars>>

\* 06.py:148-150
CandidateReturn ==
    /\ pc = "returned"
    /\ site = "candidate"
    /\ loop_count' = (IF ret[2] THEN loop_count + 1 ELSE loop_count)
    /\ pc' = "pick"
    /\ UNCHANGED <<grid, site, simVars, ret, first_ret, original_visited, start_pos,
                   positions_to_check, pending, simulated, part1, part2>>
    /\ UNCHANGED <<error, otherVars>>

\* 06.py:152 and 163-164: nothing left that passes the filter.
FindLoopReturn ==
    /\ pc = "pick"
    /\ pending \cap original_visited = {}
    /\ pending' = {}
    /\ part2' = loop_count
    /\ pc' = "done"
    /\ UNCHANGED <<grid, site, simVars, ret, first_ret, original_visited, start_pos,
                   positions_to_check, simulated, loop_count, part1>>
    /\ UNCHANGED <<error, otherVars>>

----------------------------------------------------------------------------

\* The obstructions a caller may pass: None or any cell other than the start.
Obstructions(g) ==
    {None} \cup {c \in (0 .. width(g) - 1) \X (0 .. height(g) - 1) :
                    c # <<FindStart(g)[1], FindStart(g)[2]>>}

Init ==
    /\ grid \in Grids
    /\ site \in {"direct", "part1"}
    /\ block_pos \in (IF site = "direct" THEN Obstructions(grid) ELSE {None})
    /\ LET st == FindStart(grid)
       IN /\ x = st[1]
          /\ y = st[2]
          /\ direction = st[3]
          /\ visited_positions = {<<st[1], st[2]>>}
          /\ state_history = {<<st[1], st[2], st[3]>>}
    /\ steps = 0
    /\ pc = "loop"
    /\ ret = None
    /\ first_ret = None
    /\ original_visited = {}
    /\ start_pos = None
    /\ positions_to_check = {}
    /\ pending = {}
    /\ simulated = {}
    /\ loop_count = 0
    /\ part1 = 0
    /\ part2 = 0
    /\ error = None
    /\ text = <<>>
    /\ Idle9
    /\ Idle14

Next ==
    \/ StepExit
    \/ StepTurn
    \/ StepMove
    \/ DirectReturn
    \/ Part1Return
    \/ BaselineReturn
    \/ \E test_pos \in pending : NextCandidate(test_pos)
    \/ CandidateReturn
    \/ FindLoopReturn

Spec == Init /\ [][Next]_vars

----------------------------------------------------------------------------
\* solve_puzzle on any input: the lines read at 06.py:160 may be no lines at
\* all, rows of different lengths, or rows without a start marker.  Nothing
\* in the source tests for these; what happens is what the statements of
\* simulate_guard do with such a list.

\* Bounds: an input has at most MaxRows rows of at most MaxCols characters.
MaxRows == 3
MaxCols == 2

\* Row lengths of an input.  strip() leaves the first and the last line
\* non-empty; lines between them may have any length.
Shapes ==
    {sh \in UNION {[1 .. h -> 0 .. MaxCols] : h \in 0 .. MaxRows} :
        Len(sh) > 0 => (sh[1] > 0 /\ sh[Len(sh)] > 0)}

Dots(sh) == [j \in 1 .. Len(sh) |-> [i \in 1 .. sh[j] |-> "."]]

\* Inputs of '.', with no marker or with one marker anywhere.
InputGrids ==
    UNION {{Dots(sh)} \cup
           {[Dots(sh) EXCEPT ![j][i] = d] :
               <<j, i, d>> \in {t \in (1 .. Len(sh)) \X (1 .. MaxCols) \X Markers :
                                  t[2] <= sh[t[1]]}} :
           sh \in Shapes}

\* 06.py:57: grid[0] of an empty list raises IndexError.
CallIndexError ==
    /\ pc = "entry"
    /\ grid = <<>>
    /\ error' = "IndexError"
    /\ pc' = "raised"
    /\ UNCHANGED <<grid, site, simVars, ret, first_ret, searchVars, part1, part2>>
    /\ UNCHANGED otherVars

\* 06.py:161 and 57-76: the first call of simulate_guard reaches its loop.
CallEnter ==
    /\ pc = "entry"
    /\ grid # <<>>
    /\ CallSimulate(None)
    /\ pc' = "loop"
    /\ UNCHANGED <<site, ret, first_ret, searchVars, part1, part2, error>>
    /\ UNCHANGED otherVars

\* 06.py:140: a neighbour of the path passes the bounds test but its row is
\* too short, grid[test_y][test_x] raises IndexError.
BaselineIndexError ==
    /\ pc = "returned"
    /\ site = "baseline"
    /\ \E c \in Around(grid, ret[1]) : ~HasCell(grid, c[1], c[2])
    /\ error' = "IndexError"
    /\ pc' = "raised"
    /\ UNCHANGED <<grid, site, simVars, ret, first_ret, searchVars, part1, part2>>
    /\ UNCHANGED otherVars

\* 06.py:80 and 24: moves[direction] with direction None raises KeyError.
StepKeyError ==
    /\ pc = "loop"
    /\ direction \notin Markers
    /\ error' = "KeyError"
    /\ pc' = "raised"
    /\ UNCHANGED <<grid, site, simVars, ret, first_ret, searchVars, part1, part2>>
    /\ UNCHANGED otherVars

\* 06.py:86: the next cell is within width and height but its row is too
\* short, grid[next_y][next_x] raises IndexError.
StepIndexError ==
    /\ pc = "loop"
    /\ direction \in Markers
    /\ InBounds(grid, Next_pos[1], Next_pos[2])
    /\ ~HasCell(grid, Next_pos[1], Next_pos[2])
    /\ error' = "IndexError"
    /\ pc' = "raised"
    /\ UNCHANGED <<grid, site, simVars, ret, first_ret, searchVars, part1, part2>>
    /\ UNCHANGED otherVars

\* 06.py:160-161: solve_puzzle has read its lines and calls simulate_guard.
InitInput ==
    /\ grid \in InputGrids
    /\ site = "part1"
    /\ pc = "entry"
    /\ block_pos = None
    /\ x = None
    /\ y = None
    /\ direction = None
    /\ visited_positions = {}
    /\ state_history = {}
    /\ steps = 0
    /\ ret = None
    /\ first_ret = None
    /\ original_visited = {}
    /\ start_pos = None
    /\ positions_to_check = {}
    /\ pending = {}
    /\ simulated = {}
    /\ loop_count = 0
    /\ part1 = 0
    /\ part2 = 0
    /\ error = None
    /\ text = <<>>
    /\ Idle9
    /\ Idle14

NextInput ==
    \/ CallIndexError
    \/ CallEnter
    \/ StepKeyError
    \/ StepIndexError
    \/ StepExit
    \/ StepTurn
    \/ StepMove
    \/ Part1Return
    \/ BaselineReturn
    \/ BaselineIndexError
    \/ \E test_pos \in pending : NextCandidate(test_pos)
    \/ CandidateReturn
    \/ FindLoopReturn

SpecInput == InitInput /\ [][NextInput]_vars

----------------------------------------------------------------------------
\* solve_puzzle from the text of the input file (06.py:160):
\* input_path.read_text().strip().splitlines().  A text is a sequence of
\* one-character strings over '.', two markers, the blank and the newline.

\* Bound: a text has at most MaxText characters.
MaxText == 4

TextChars == {".", "^", "v", " ", "\n"}

\* str.strip() removes whitespace; of TextChars these are whitespace.
Whitespace == {" ", "\n"}

RECURSIVE LStrip(_)
LStrip(t) == IF t # <<>> /\ Head(t) \in Whitespace THEN LStrip(Tail(t)) ELSE t

RECURSIVE RStrip(_)
RStrip(t) ==
    IF t # <<>> /\ t[Len(t)] \in Whitespace THEN RStrip(SubSeq(t, 1, Len(t) - 1)) ELSE t

\* str.strip(): leading and trailing whitespace of the whole text.
Strip(t) == RStrip(LStrip(t))

\* str.splitlines(): the lines between newlines, without them; no last
\* empty line after a final newline, no line at all for the empty text.
RECURSIVE SplitLines(_)
SplitLines(t) ==
    IF t = <<>> THEN <<>>
    ELSE LET breaks == {k \in 1 .. Len(t) : t[k] = "\n"}
         IN IF breaks = {} THEN <<t>>
            ELSE LET b == CHOOSE k \in breaks : \A m \in breaks : k <= m
                 IN <<SubSeq(t, 1, b - 1)>> \o SplitLines(SubSeq(t, b + 1, Len(t)))

Texts == UNION {[1 .. n -> TextChars] : n \in 0 .. MaxText}

\* 06.py:160
ReadInput ==
    /\ pc = "read"
    /\ grid' = SplitLines(Strip(text))
    /\ pc' = "entry"
    /\ UNCHANGED <<site, simVars, ret, first_ret, searchVars, part1, part2, error>>
    /\ UNCHANGED otherVars

InitText ==
    /\ text \in Texts
    /\ grid = <<>>
    /\ site = "part1"
    /\ pc = "read"
    /\ block_pos = None
    /\ x = None
    /\ y = None
    /\ direction = None
    /\ visited_positions = {}
    /\ state_history = {}
    /\ steps = 0
    /\ ret = None
    /\ first_ret = None
    /\ original_visited = {}
    /\ start_pos = None
    /\ positions_to_check = {}
    /\ pending = {}
    /\ simulated = {}
    /\ loop_count = 0
    /\ part1 = 0
    /\ part2 = 0
    /\ error = None
    /\ Idle9
    /\ Idle14

NextText ==
    \/ ReadInput
    \/ CallIndexError
    \/ CallEnter
    \/ StepKeyError
    \/ StepIndexError
    \/ StepExit
    \/ StepTurn
    \/ StepMove
    \/ Part1Return
    \/ BaselineReturn
    \/ BaselineIndexError
    \/ \E test_pos \in pending : NextCandidate(test_pos)
    \/ CandidateReturn
    \/ FindLoopReturn

SpecText == InitText /\ [][NextText]_vars

----------------------------------------------------------------------------
\* solve_puzzle on named grids.  The for loop of 06.py:146 takes the elements
\* of positions_to_check in the order of the set; here that is one fixed
\* order, row by row, one of the orders Spec takes.

\* The w by h grid with the marker d at s and '#' on the cells of B.
GridOf(w, h, s, d, B) ==
    [yy \in 1 .. h |->
        [xx \in 1 .. w |->
            IF <<xx - 1, yy - 1>> = s THEN d
            ELSE IF <<xx - 1, yy - 1>> \in B THEN "#" ELSE "."]]

\* The 10 by 10 example grid: '^' at (4, 6) and eight '#'.
ScenarioA ==
    GridOf(10, 10, <<4, 6>>, "^",
           {<<4, 0>>, <<9, 1>>, <<2, 3>>, <<7, 4>>, <<1, 6>>, <<8, 7>>, <<0, 8>>, <<6, 9>>})

\* The empty 3 by 3 grid, '^' at the centre.
ScenarioB == GridOf(3, 3, <<1, 1>>, "^", {})

Sides == {<<0, 1>>, <<1, 0>>, <<0, -1>>, <<-1, 0>>}

\* The cells of the 3 by 3 grid next to s.
Beside(s) ==
    {c \in (0 .. 2) \X (0 .. 2) : \E d \in Sides : c = <<s[1] + d[1], s[2] + d[2]>>}

\* 3 by 3 grids with '#' on exactly n cells next to the start, any heading.
Pockets(n) ==
    UNION {{GridOf(3, 3, s, d, B) :
               d \in Markers, B \in {b \in SUBSET Beside(s) : Cardinality(b) = n}} :
           s \in (0 .. 2) \X (0 .. 2)}

Scenarios == {ScenarioA, ScenarioB} \cup Pockets(3) \cup Pockets(4)

\* 06.py:146: the element the for loop yields next.
FirstPending ==
    CHOOSE c \in pending \cap original_visited :
        \A e \in pending \cap original_visited :
            c[2] < e[2] \/ (c[2] = e[2] /\ c[1] <= e[1])

NextCandidateInOrder ==
    /\ pc = "pick"
    /\ pending \cap original_visited # {}
    /\ NextCandidate(FirstPending)

InitScenario ==
    /\ grid \in Scenarios
    /\ site = "part1"
    /\ block_pos = None
    /\ LET st == FindStart(grid)
       IN /\ x = st[1]
          /\ y = st[2]
          /\ direction = st[3]
          /\ visited_positions = {<<st[1], st[2]>>}
          /\ state_history = {<<st[1], st[2], st[3]>>}
    /\ steps = 0
    /\ pc = "loop"
    /\ ret = None
    /\ first_ret = None
    /\ original_visited = {}
    /\ start_pos = None
    /\ positions_to_check = {}
    /\ pending = {}
    /\ simulated = {}
    /\ loop_count = 0
    /\ part1 = 0
    /\ part2 = 0
    /\ error = None
    /\ text = <<>>
    /\ Idle9
    /\ Idle14

NextScenario ==
    \/ StepExit
    \/ StepTurn
    \/ StepMove
    \/ Part1Return
    \/ BaselineReturn
    \/ NextCandidateInOrder
    \/ CandidateReturn
    \/ FindLoopReturn

SpecScenario == InitScenario /\ [][NextScenario]_vars

----------------------------------------------------------------------------
\* solve_puzzle on grids with two start markers.

\* Bounds: these grids are MarkW columns by MarkH rows.
MarkW == 3
MarkH == 2

\* Rectangular grids of '.' with markers on two cells, any two headings.
MarkerGrids ==
    {[yy \in 1 .. MarkH |->
        [xx \in 1 .. MarkW |->
            IF <<xx - 1, yy - 1>> = a THEN da
            ELSE IF <<xx - 1, yy - 1>> = b THEN db ELSE "."]] :
        <<a, b>> \in {p \in ((0 .. MarkW - 1) \X (0 .. MarkH - 1))
                              \X ((0 .. MarkW - 1) \X (0 .. MarkH - 1)) : p[1] # p[2]},
        da \in Markers, db \in Markers}

InitMarkers ==
    /\ grid \in MarkerGrids
    /\ site = "part1"
    /\ block_pos = None
    /\ LET st == FindStart(grid)
       IN /\ x = st[1]
          /\ y = st[2]
          /\ direction = st[3]
          /\ visited_positions = {<<st[1], st[2]>>}
          /\ state_history = {<<st[1], st[2], st[3]>>}
    /\ steps = 0
    /\ pc = "loop"
    /\ ret = None
    /\ first_ret = None
    /\ original_visited = {}
    /\ start_pos = None
    /\ positions_to_check = {}
    /\ pending = {}
    /\ simulated = {}
    /\ loop_count = 0
    /\ part1 = 0
    /\ part2 = 0
    /\ error = None
    /\ text = <<>>
    /\ Idle9
    /\ Idle14

NextMarkers ==
    \/ StepExit
    \/ StepTurn
    \/ StepMove
    \/ Part1Return
    \/ BaselineReturn
    \/ \E test_pos \in pending : NextCandidate(test_pos)
    \/ CandidateReturn
    \/ FindLoopReturn

SpecMarkers == InitMarkers /\ [][NextMarkers]_vars

----------------------------------------------------------------------------
\* Day 09/09.py: parse_disk_map and compact_files.  A disk map is a sequence
\* of digit characters.  A cell of final_layout is None or a file id; the
\* id n is written <<n>>, so that it can be compared with None.

\* Bounds: a disk map has at most MaxMap digits, each at most MaxDigit.
MaxMap == 5
MaxDigit == 2

DigitChars == <<"0", "1", "2", "3", "4", "5", "6", "7", "8", "9">>

\* 09.py:31 int(char)
int(char) == (CHOOSE k \in 1 .. 10 : DigitChars[k] = char) - 1

DiskMaps ==
    UNION {[1 .. n -> {DigitChars[k + 1] : k \in 0 .. MaxDigit}] : n \in 0 .. MaxMap}

\* n copies of e
Repeat(e, n) == [k \in 1 .. n |-> e]

\* 09.py:30-46: the loop of parse_disk_map from the character at index on
\* (index counts from 0 as in the source).
RECURSIVE ParseFrom(_, _, _, _, _, _, _, _)
ParseFrom(dm, p2, index, file_id, position, fs, sp, layout) ==
    IF index >= Len(dm)
    THEN [files |-> fs, free_spaces |-> sp, final_layout |-> layout]
    ELSE LET length == int(dm[index + 1])
         IN IF index % 2 = 0
            THEN ParseFrom(dm, p2, index + 1, file_id + 1, position + length,
                           IF p2 THEN Append(fs, <<position, length, file_id>>)
                           ELSE fs \o [k \in 1 .. length |-> <<position + k - 1, 1, file_id>>],
                           sp,
                           layout \o Repeat(<<file_id>>, length))
            ELSE ParseFrom(dm, p2, index + 1, file_id, position + length,
                           fs,
                           Append(sp, <<position, length>>),
                           layout \o Repeat(None, length))

\* 09.py:12-48
parse_disk_map(dm, p2) == ParseFrom(dm, p2, 0, 0, 0, <<>>, <<>>, <<>>)

\* 09.py:103-104: solve calls parse_disk_map, then compact_files starts with
\* the last file.
Parse9 ==
    /\ pc9 = "parse"
    /\ LET parsed == parse_disk_map(disk_map, whole_file)
       IN /\ files' = parsed.files
          /\ free_spaces' = parsed.free_spaces
          /\ final_layout' = parsed.final_layout
          /\ file_index' = Len(parsed.files)
    /\ pc9' = "next"
    /\ UNCHANGED <<disk_map, whole_file, space_index, block_i>>
    /\ UNCHANGED <<day6Vars, text, day14Vars>>

\* The free spaces the file <<pos, size, id>> fits in (09.py:64).
Fits(f) ==
    {k \in 1 .. Len(free_spaces) :
        free_spaces[k][1] < f[1] /\ f[2] <= free_spaces[k][2]}

\* 09.py:62-64: the next file of reversed(files) and the first free space to
\* its left that is large enough; without one the file stays.
NextFile ==
    /\ pc9 = "next"
    /\ file_index >= 1
    /\ IF Fits(files[file_index]) = {}
       THEN /\ file_index' = file_index - 1
            /\ UNCHANGED <<space_index, block_i, pc9>>
       ELSE /\ space_index' = (CHOOSE k \in Fits(files[file_index]) :
                                  \A m \in Fits(files[file_index]) : k <= m)
            /\ block_i' = 0
            /\ pc9' = "moving"
            /\ UNCHANGED file_index
    /\ UNCHANGED <<disk_map, whole_file, files, free_spaces, final_layout>>
    /\ UNCHANGED <<day6Vars, text, day14Vars>>

\* 09.py:66-69: one block of the file; the assertion, then the two writes.
MoveBlock ==
    /\ pc9 = "moving"
    /\ block_i < files[file_index][2]
    /\ LET pos == files[file_index][1]
           file_id == files[file_index][3]
           space_pos == free_spaces[space_index][1]
       IN IF final_layout[pos + block_i + 1] = <<file_id>>
          THEN /\ final_layout' =
                     [[final_layout EXCEPT ![pos + block_i + 1] = None]
                         EXCEPT ![space_pos + block_i + 1] = <<file_id>>]
               /\ block_i' = block_i + 1
               /\ UNCHANGED pc9
          ELSE /\ pc9' = "failed"
               /\ UNCHANGED <<final_layout, block_i>>
    /\ UNCHANGED <<disk_map, whole_file, files, free_spaces, file_index, space_index>>
    /\ UNCHANGED <<day6Vars, text, day14Vars>>

\* Mutant: the space found is moved on but keeps its size.
FinishMoveKeepsSize ==
    /\ pc9 = "moving"
    /\ block_i = files[file_index][2]
    /\ free_spaces' = [free_spaces EXCEPT ![space_index] =
                          <<@[1] + files[file_index][2], @[2]>>]
    /\ file_index' = file_index - 1
    /\ space_index' = None
    /\ pc9' = "next"
    /\ UNCHANGED <<disk_map, whole_file, files, final_layout, block_i>>
    /\ UNCHANGED <<day6Vars, text, day14Vars>>

\* 09.py:70-72: the space found shrinks by the file and the scan ends.
FinishMove ==
    /\ pc9 = "moving"
    /\ block_i = files[file_index][2]
    /\ free_spaces' = [free_spaces EXCEPT ![space_index] =
                          <<@[1] + files[file_index][2], @[2] - files[file_index][2]>>]
    /\ file_index' = file_index - 1
    /\ space_index' = None
    /\ pc9' = "next"
    /\ UNCHANGED <<disk_map, whole_file, files, final_layout, block_i>>
    /\ UNCHANGED <<day6Vars, text, day14Vars>>

\* 09.py:74
Return9 ==
    /\ pc9 = "next"
    /\ file_index = 0
    /\ pc9' = "done"
    /\ UNCHANGED <<disk_map, whole_file, files, free_spaces, final_layout, file_index,
                   space_index, block_i>>
    /\ UNCHANGED <<day6Vars, text, day14Vars>>

\* The state of the guard patrol when it is not running.
Idle6 ==
    /\ grid = <<>>
    /\ site = "part1"
    /\ pc = "idle"
    /\ block_pos = None
    /\ x = None
    /\ y = None
    /\ direction = None
    /\ visited_positions = {}
    /\ state_history = {}
    /\ steps = 0
    /\ ret = None
    /\ first_ret = None
    /\ original_visited = {}
    /\ start_pos = None
    /\ positions_to_check = {}
    /\ pending = {}
    /\ simulated = {}
    /\ loop_count = 0
    /\ part1 = 0
    /\ part2 = 0
    /\ error = None
    /\ text = <<>>

\* 09.py:92-103: solve(disk_map, part2) for any disk map, in both modes.
InitDisk ==
    /\ disk_map \in DiskMaps
    /\ whole_file \in BOOLEAN
    /\ files = <<>>
    /\ free_spaces = <<>>
    /\ final_layout = <<>>
    /\ file_index = 0
    /\ space_index = None
    /\ block_i = 0
    /\ pc9 = "parse"
    /\ Idle6
    /\ Idle14

NextDisk ==
    \/ Parse9
    \/ NextFile
    \/ MoveBlock
    \/ FinishMove
    \/ Return9

SpecDisk == InitDisk /\ [][NextDisk]_vars

----------------------------------------------------------------------------
\* 14/14.py: Robot.move and Robot.get_position_at.  Python's % with a
\* positive modulus gives a result in 0 .. modulus - 1 for every integer, as
\* % does here.

\* 14.py:4-5
WIDTH == 101
HEIGHT == 103

\* Bounds: velocities of -MaxVel .. MaxVel and some longer than the grid;
\* times of 0 .. MaxTime.
MaxVel == 2
MaxTime == 4

Velocities == (-MaxVel .. MaxVel) \cup {-(HEIGHT + 1), HEIGHT + 1}

\* Robots on the edges and in the middle of the grid, with any velocity.
Robots ==
    [p_x : {0, WIDTH \div 2, WIDTH - 1},
     p_y : {0, HEIGHT \div 2, HEIGHT - 1},
     v_x : Velocities,
     v_y : Velocities]

\* Mutant: the remainder takes the sign of the dividend.
moveRem(r) ==
    [r EXCEPT !.p_x = IF r.p_x + r.v_x < 0 THEN -((-(r.p_x + r.v_x)) % WIDTH)
                      ELSE (r.p_x + r.v_x) % WIDTH,
              !.p_y = IF r.p_y + r.v_y < 0 THEN -((-(r.p_y + r.v_y)) % HEIGHT)
                      ELSE (r.p_y + r.v_y) % HEIGHT]

\* 14.py:31-32: the robot after one move.
move(r) ==
    [r EXCEPT !.p_x = (r.p_x + r.v_x) % WIDTH,
              !.p_y = (r.p_y + r.v_y) % HEIGHT]

\* 14.py:46-48
get_position_at(r, t) ==
    <<(r.p_x + (r.v_x * t)) % WIDTH, (r.p_y + (r.v_y * t)) % HEIGHT>>

\* 14.py:33: grid[index] += 1 on a list of counts, of which tiles keeps the
\* non-zero ones.  The same list is passed to every call of move.
Bump(t, index) ==
    IF index \in DOMAIN t THEN [t EXCEPT ![index] = @ + 1]
    ELSE [k \in DOMAIN t \cup {index} |-> IF k = index THEN 1 ELSE t[k]]

\* 14.py:35-48: the position at the given time is asked of the robot as parsed.
GetPositionAt ==
    /\ pc14 = "ask"
    /\ answer' = get_position_at(robot, time)
    /\ pc14' = "move"
    /\ UNCHANGED <<robot, tiles, time, moves>>
    /\ UNCHANGED <<day6Vars, text, day9Vars>>

\* 14.py:23-33: one call of move.
Move ==
    /\ pc14 = "move"
    /\ moves < time
    /\ robot' = move(robot)
    /\ tiles' = Bump(tiles, robot'.p_y * WIDTH + robot'.p_x)
    /\ moves' = moves + 1
    /\ UNCHANGED <<time, answer, pc14>>
    /\ UNCHANGED <<day6Vars, text, day9Vars>>

\* The robot has been moved time times.
Moved ==
    /\ pc14 = "move"
    /\ moves = time
    /\ pc14' = "done"
    /\ UNCHANGED <<robot, tiles, time, answer, moves>>
    /\ UNCHANGED <<day6Vars, text, day9Vars>>

InitRobot ==
    /\ robot \in Robots
    /\ time \in 0 .. MaxTime
    /\ tiles = <<>>
    /\ answer = None
    /\ moves = 0
    /\ pc14 = "ask"
    /\ Idle6
    /\ Idle9

NextRobot ==
    \/ GetPositionAt
    \/ Move
    \/ Moved

SpecRobot == InitRobot /\ [][NextRobot]_vars

----------------------------------------------------------------------------
\* Reference definitions for the properties below.

Start(g) == LET f == FindStart(g) IN <<f[1], f[2]>>

Cells(g) == (0 .. width(g) - 1) \X (0 .. height(g) - 1)

\* Number of (position, heading) states of a grid.
StateSpace(g) == width(g) * height(g) * 4

RefAhead(p, dir) ==
    CASE dir = "^" -> <<p[1], p[2] - 1>>
      [] dir = ">" -> <<p[1] + 1, p[2]>>
      [] dir = "v" -> <<p[1], p[2] + 1>>
      [] dir = "<" -> <<p[1] - 1, p[2]>>

\* Up -> Right -> Down -> Left -> Up
RefRight(dir) ==
    CASE dir = "^" -> ">" [] dir = ">" -> "v" [] dir = "v" -> "<" [] dir = "<" -> "^"

RefInside(g, c) == c[1] \in 0 .. width(g) - 1 /\ c[2] \in 0 .. height(g) - 1

RefBlocked(g, c, obstruction) == Cell(g, c[1], c[2]) = "#" \/ c = obstruction

\* The walk of an agent that moves when free and turns right when blocked and
\* keeps no history, for at most fuel steps: the cells it has occupied and
\* whether it came to point at a cell outside the grid.  An agent that has not
\* left after StateSpace(g) steps has repeated a state and never leaves.
RECURSIVE FreeWalk(_, _, _, _, _, _)
FreeWalk(g, obstruction, p, dir, fuel, seen) ==
    LET n == RefAhead(p, dir)
    IN IF ~RefInside(g, n) THEN [cells |-> seen, exits |-> TRUE]
       ELSE IF fuel = 0 THEN [cells |-> seen, exits |-> FALSE]
       ELSE IF RefBlocked(g, n, obstruction)
            THEN FreeWalk(g, obstruction, p, RefRight(dir), fuel - 1, seen)
            ELSE FreeWalk(g, obstruction, n, dir, fuel - 1, seen \cup {n})

Walk(g, obstruction) ==
    FreeWalk(g, obstruction, Start(g), FindStart(g)[3], StateSpace(g), {Start(g)})

----------------------------------------------------------------------------
\* C1: every call of simulate_guard on a valid grid, with no obstruction or
\* with any cell other than the start as obstruction, ends within
\* width*height*4 executions of its loop body: a call still in its loop has
\* executed fewer than that many, so the ceiling of width*height*4 + 1 is never
\* passed, and a call that has returned has returned its visited set with
\* exactly one of False (Exited) and True (Looping).
C1_TerminationBound ==
    /\ steps <= StateSpace(grid)
    /\ pc = "loop" => steps < StateSpace(grid)
    /\ pc = "returned" =>
          /\ ret[2] \in BOOLEAN
          /\ ret[1] = visited_positions

\* A call with an obstruction that ran several turns and moves and ended Looping.
C1_Witness ==
    /\ pc = "returned"
    /\ block_pos # None
    /\ ret[2] = TRUE
    /\ steps >= 6
    /\ Cardinality(visited_positions) >= 2

\* C2: simulate_guard returns True exactly when the agent without history
\* never points out of the grid, and False exactly when it eventually does.
C2_SoundComplete ==
    pc = "returned" => (ret[2] = ~Walk(grid, block_pos).exits)

\* A Looping verdict on a walk that moves, and an Exited verdict after a turn.
C2_Witness ==
    /\ pc = "returned"
    /\ block_pos # None
    /\ ret[2] = TRUE
    /\ Cardinality(visited_positions) >= 2
    /\ ~Walk(grid, block_pos).exits

\* C3: find_loop_positions returns the number of cells whose obstruction
\* turns an Exited baseline into a Looping run; a grid whose baseline is
\* already Looping has no such cell, so there it returns 0.
C3_CountsFlips ==
    (pc = "done" /\ site # "direct") =>
        part2 = Cardinality({c \in Cells(grid) \ {Start(grid)} :
                                Walk(grid, None).exits /\ ~Walk(grid, c).exits})

\* The cells a full scan would try, and the number of them that end Looping.
FreeCells(g) == {c \in Cells(g) \ {Start(g)} : Cell(g, c[1], c[2]) # "#"}

FullScanCount(g) == Cardinality({c \in FreeCells(g) : ~Walk(g, c).exits})

\* An obstruction on a free cell the baseline never visits leaves the visited
\* set and the outcome as the baseline's (the walk with no obstruction, which
\* by C7 is what the baseline run returns).
InertOffPath ==
    (/\ pc = "returned"
     /\ site = "direct"
     /\ block_pos \in FreeCells(grid))
        => LET base == Walk(grid, None)
           IN block_pos \notin base.cells => ret = <<base.cells, ~base.exits>>

\* C4: an off-path obstruction is inert, hence for every valid grid the count
\* over the baseline-path candidates, which find_loop_positions returns, equals
\* the count of a scan over every non-blocked non-start cell.
C4_PruningExact ==
    /\ InertOffPath
    /\ (pc = "done" /\ site # "direct") => part2 = FullScanCount(grid)

\* What holds of C4: an off-path obstruction is inert on every grid, and the
\* two counts agree on every grid whose baseline run ends Exited.
PruningExactWhenExited ==
    /\ InertOffPath
    /\ (pc = "done" /\ site # "direct" /\ Walk(grid, None).exits)
          => part2 = FullScanCount(grid)

\* The search has computed its candidates.
Searching == site = "candidate" \/ (site = "baseline" /\ pc \in {"pick", "done"})

\* C5: the cells find_loop_positions re-simulates, the collected neighbours
\* that are themselves baseline-visited, are exactly the baseline-visited cells
\* other than the start.
C5_CandidateSet ==
    /\ Searching =>
          /\ positions_to_check \cap original_visited = original_visited \ {Start(grid)}
          /\ simulated \subseteq original_visited \ {Start(grid)}
    /\ (pc = "done" /\ site # "direct") => simulated = original_visited \ {Start(grid)}

\* A finished search that simulated three candidates and skipped a collected
\* neighbour that is off the path.
C5_Witness ==
    /\ pc = "done"
    /\ Cardinality(simulated) >= 3
    /\ positions_to_check \ original_visited # {}

\* C6: no candidate simulation has its obstruction on the start cell or on a
\* '#' cell, so neither is ever counted.
C6_NoStartNoBlocked ==
    /\ site = "candidate" =>
          /\ block_pos # Start(grid)
          /\ Cell(grid, block_pos[1], block_pos[2]) # "#"
    /\ \A c \in simulated : c # Start(grid) /\ Cell(grid, c[1], c[2]) # "#"

\* A counted candidate on a path that runs along a '#' cell and whose start
\* has a visited neighbour.
C6_Witness ==
    /\ pc = "done"
    /\ site = "candidate"
    /\ part2 >= 1
    /\ \E c \in simulated : \E d \in {<<0, 1>>, <<1, 0>>, <<0, -1>>, <<-1, 0>>} :
          /\ <<c[1] + d[1], c[2] + d[2]>> \in Cells(grid)
          /\ Cell(grid, c[1] + d[1], c[2] + d[2]) = "#"
    /\ \E c \in simulated : \E d \in {<<0, 1>>, <<1, 0>>, <<0, -1>>, <<-1, 0>>} :
          <<c[1] + d[1], c[2] + d[2]>> = Start(grid)

\* C7: the outcome of a call is a function of (grid, obstruction) alone: the
\* second run of the unmodified grid, inside find_loop_positions, returns what
\* the first run returned to solve_puzzle, and every call, whatever ran before
\* it and in whatever order, returns the visited set and the outcome of the
\* walk its inputs determine.
C7_Deterministic ==
    /\ (pc = "returned" /\ site = "baseline") => ret = first_ret
    /\ pc = "returned" =>
          LET w == Walk(grid, block_pos)
          IN ret = <<w.cells, ~w.exits>>

\* The second of two runs on identical inputs has returned, after a first run
\* that turned and moved.
C7_Witness ==
    /\ pc = "returned"
    /\ site = "baseline"
    /\ first_ret # None
    /\ Cardinality(first_ret[1]) >= 3
    /\ direction # FindStart(grid)[3]

\* C8: a step of the simulation changes one component of the agent state.
\* Blocked ahead: the heading becomes its right turn, the position stays.
\* Free ahead: the position becomes the cell ahead, the heading stays.  Out of
\* bounds ahead: the run ends Exited, and position, heading and visited set
\* stay.
C8_OneComponent ==
    [][pc = "loop" =>
        LET n == RefAhead(<<x, y>>, direction)
        IN IF ~RefInside(grid, n)
           THEN /\ pc' = "returned"
                /\ ret' = <<visited_positions, FALSE>>
                /\ <<x', y', direction', visited_positions'>>
                      = <<x, y, direction, visited_positions>>
           ELSE IF RefBlocked(grid, n, block_pos)
                THEN /\ direction' = RefRight(direction)
                     /\ direction' # direction
                     /\ <<x', y'>> = <<x, y>>
                ELSE /\ <<x', y'>> = n
                     /\ <<x', y'>> # <<x, y>>
                     /\ direction' = direction]_vars

\* A run that has turned, has moved and has ended Exited.
C8_Witness ==
    /\ pc = "returned"
    /\ ret[2] = FALSE
    /\ direction # FindStart(grid)[3]
    /\ Cardinality(visited_positions) >= 2

\* C9: the cell ahead is treated as blocked, that is, the step is a right turn
\* in place, exactly when the grid holds '#' there or the cell is the
\* obstruction of the call, the cell (0, 0) included; with no obstruction only
\* '#' blocks.
C9_Blocked ==
    [][(pc = "loop" /\ RefInside(grid, RefAhead(<<x, y>>, direction))) =>
        LET n == RefAhead(<<x, y>>, direction)
            turned == <<x', y'>> = <<x, y>> /\ direction' = RefRight(direction)
        IN /\ turned <=> (Cell(grid, n[1], n[2]) = "#" \/ (block_pos # None /\ n = block_pos))
           /\ block_pos = None => (turned <=> Cell(grid, n[1], n[2]) = "#")]_vars

\* The guard started at (1, 0) facing left, with the obstruction on the free
\* cell (0, 0), and has turned.
C9_Witness ==
    /\ block_pos = <<0, 0>>
    /\ Cell(grid, 0, 0) = "."
    /\ Cell(grid, 1, 0) = "<"
    /\ steps = 1
    /\ <<x, y, direction>> = <<1, 0, "^">>

\* C10: no step of simulate_guard, find_loop_positions or solve_puzzle
\* changes the grid; the obstruction lives in block_pos only.
C10_GridReadOnly == [][grid' = grid]_vars

\* A candidate simulation has ended Looping and the cell of its obstruction
\* still holds '.'.
C10_Witness ==
    /\ pc = "returned"
    /\ site = "candidate"
    /\ ret[2] = TRUE
    /\ Cell(grid, block_pos[1], block_pos[2]) = "."

\* C11: in every state of a simulation the agent stands inside the grid:
\* 0 <= x < width and 0 <= y < height.
C11_PositionInBounds ==
    /\ 0 <= x /\ x < width(grid)
    /\ 0 <= y /\ y < height(grid)

\* A run has moved to the last column and ended there by leaving the grid.
C11_Witness ==
    /\ pc = "returned"
    /\ ret[2] = FALSE
    /\ x = width(grid) - 1
    /\ direction = ">"
    /\ Cardinality(visited_positions) >= 3

\* C12: state_history never holds more than width*height*4 triples.
C12_HistoryBound == Cardinality(state_history) <= StateSpace(grid)

\* A Looping run whose history holds a state for every heading of two cells.
C12_Witness ==
    /\ pc = "returned"
    /\ ret[2] = TRUE
    /\ Cardinality(state_history) >= 6

\* C13: the start position is in visited_positions in every state of every
\* simulation, and in the set every call returns, whatever the outcome.
C13_StartVisited ==
    /\ Start(grid) \in visited_positions
    /\ pc = "returned" => Start(grid) \in ret[1]

\* A candidate simulation has ended Looping away from the start.
C13_Witness ==
    /\ pc = "returned"
    /\ site = "candidate"
    /\ ret[2] = TRUE
    /\ <<x, y>> # Start(grid)

\* One, two, three and four applications of turn_right.
Turns(dir) ==
    <<turn_right(dir),
      turn_right(turn_right(dir)),
      turn_right(turn_right(turn_right(dir))),
      turn_right(turn_right(turn_right(turn_right(dir))))>>

\* C14: turn_right is the 4-cycle '^' -> '>' -> 'v' -> '<' -> '^': from the
\* heading of the guard, and from every heading, four applications give the
\* heading back and one, two or three do not.
C14_TurnCycle ==
    /\ \A d \in Markers \cup {direction} :
          /\ Turns(d)[4] = d
          /\ \A k \in 1 .. 3 : Turns(d)[k] # d
    /\ Turns("^") = <<">", "v", "<", "^">>

\* A guard shut in on all four sides has turned four times and faces as at the start.
C14_Witness ==
    /\ pc = "returned"
    /\ ret[2] = TRUE
    /\ steps = 4
    /\ visited_positions = {Start(grid)}
    /\ direction = FindStart(grid)[3]

\* C15: a call starts its loop with both sets seeded with the initial state,
\* and a step that does not end the run adds exactly one state, the new
\* (position, heading), to state_history; no step removes one.
C15_HistoryGrows ==
    [][/\ (pc = "loop" /\ steps = 0) =>
            /\ state_history = {<<x, y, direction>>}
            /\ visited_positions = {<<x, y>>}
            /\ <<x, y, direction>> = FindStart(grid)
       /\ (pc = "loop" /\ pc' = "loop") =>
            /\ <<x', y', direction'>> \notin state_history
            /\ state_history' = state_history \cup {<<x', y', direction'>>}
       /\ (pc = "loop" /\ pc' = "returned") => state_history' = state_history]_vars

\* A run still in its loop after four steps, with five recorded states.
C15_Witness ==
    /\ pc = "loop"
    /\ steps = 4
    /\ Cardinality(state_history) = 5
    /\ Cardinality(visited_positions) >= 2

\* C16: visited_positions never holds a '#' cell nor the obstruction of the
\* call (an obstruction is None or a cell other than the start).
C16_VisitedTraversable ==
    \A c \in visited_positions : Cell(grid, c[1], c[2]) # "#" /\ c # block_pos

\* The guard has turned away from the obstruction and moved on.
C16_Witness ==
    /\ pc = "loop"
    /\ block_pos # None
    /\ Cell(grid, block_pos[1], block_pos[2]) = "."
    /\ \E d \in Markers : <<x, y, d>> \in state_history
                            /\ RefAhead(<<x, y>>, d) = block_pos
    /\ RefAhead(<<x, y>>, direction) # block_pos
    /\ Cardinality(visited_positions) >= 3

NoMarker(g) == FindStart(g) = None

\* The input is empty or its rows are not all of one width.
Malformed(g) == g = <<>> \/ \E j \in 1 .. Len(g) : Len(g[j]) # Len(g[1])

\* C18: on a rectangular input without a start marker the program fails with
\* StartNotFoundError, and no start position is assumed.
C18_StartNotFound ==
    (~Malformed(grid) /\ NoMarker(grid)) =>
        /\ pc \in {"entry", "loop", "raised"}
        /\ x = None /\ y = None
        /\ pc = "raised" => error = "StartNotFoundError"

\* C19: on an input that is empty or whose rows differ in width the program
\* fails with FormatError and runs nothing: no simulation starts and no
\* visited count or loop count is returned.
C19_FormatError ==
    Malformed(grid) =>
        /\ pc \in {"entry", "raised"}
        /\ pc = "raised" => error = "FormatError"

\* C20: on an input without a start marker or with a malformed grid, no
\* execution of the loop body and no candidate simulation precedes the error.
C20_FailsBeforeAnyStep ==
    ((NoMarker(grid) \/ Malformed(grid)) /\ pc = "raised") =>
        /\ steps = 0
        /\ site = "part1"
        /\ simulated = {}

\* C21: on the 10 by 10 example grid the run without obstruction ends
\* Exited with 41 visited positions, and find_loop_positions returns 6.
C21_ScenarioA ==
    grid = ScenarioA =>
        /\ (pc = "returned" /\ site \in {"part1", "baseline"}) =>
              ret[2] = FALSE /\ Cardinality(ret[1]) = 41
        /\ pc = "done" => part1 = 41 /\ part2 = 6

\* solve_puzzle has finished on the example grid.
C21_Witness ==
    /\ grid = ScenarioA
    /\ pc = "done"
    /\ Cardinality(simulated) = 40

\* C22: on the empty 3 by 3 grid with the guard at the centre facing up, one
\* step puts the guard on the top edge, the second ends the run Exited with
\* 2 visited positions, and find_loop_positions returns 0.
C22_ScenarioB ==
    grid = ScenarioB =>
        /\ (site \in {"part1", "baseline"} /\ pc \in {"loop", "returned"} /\ steps = 1) =>
              pc = "loop" /\ <<x, y>> = <<1, 0>>
        /\ (site \in {"part1", "baseline"} /\ pc \in {"loop", "returned"} /\ steps >= 2) =>
              /\ steps = 2
              /\ pc = "returned"
              /\ ret[2] = FALSE
              /\ Cardinality(ret[1]) = 2
        /\ pc = "done" => part1 = 2 /\ part2 = 0

\* solve_puzzle has finished on the empty grid after trying its one candidate.
C22_Witness ==
    /\ grid = ScenarioB
    /\ pc = "done"
    /\ simulated = {<<1, 0>>}

\* C23, as stated: from a start with blocked cells on three sides the run
\* ends Looping without a move, with 1 visited position.
C23_PocketThreeSides ==
    (grid \in Pockets(3) /\ site = "part1" /\ pc = "returned") =>
        /\ ret[2] = TRUE
        /\ Cardinality(ret[1]) = 1

\* C23, amended: from a start with blocked cells on all four sides the run
\* makes four right turns without a move and ends Looping with 1 visited
\* position.
C23_PocketFourSides ==
    (grid \in Pockets(4) /\ site = "part1") =>
        /\ steps <= 4
        /\ <<x, y>> = <<1, 1>>
        /\ pc = "loop" => steps < 4
        /\ pc = "returned" =>
              /\ steps = 4
              /\ ret[2] = TRUE
              /\ Cardinality(ret[1]) = 1

\* The run in the closed pocket has returned.
C23_Witness ==
    /\ grid \in Pockets(4)
    /\ site = "part1"
    /\ pc = "returned"
    /\ direction = "v"

\* The grid has no '#' cell.
NoBlocks(g) == \A j \in 1 .. Len(g) : \A i \in 1 .. Len(g[j]) : g[j][i] # "#"

\* C24: on a grid without '#', whatever the start and heading, no run with
\* a single obstruction ends Looping and find_loop_positions returns 0.
C24_EmptyGridNoLoop ==
    NoBlocks(grid) =>
        /\ pc = "returned" => ret[2] = FALSE
        /\ pc = "pick" => loop_count = 0
        /\ (pc = "done" /\ site # "direct") => part2 = 0

\* A search on a grid without '#' has ended after three candidates or more.
C24_Witness ==
    /\ NoBlocks(grid)
    /\ pc = "done"
    /\ site # "direct"
    /\ Cardinality(simulated) >= 3
    /\ part2 = 0

\* C26: visited_positions is the set of positions occurring in
\* state_history, in every state of a simulation and in the returned result.
C26_VisitedIsProjection ==
    /\ visited_positions = {<<h[1], h[2]>> : h \in state_history}
    /\ pc = "returned" => ret[1] = {<<h[1], h[2]>> : h \in state_history}

\* A run has returned Looping after moves and turns: the last move found
\* its state in the history after its position was added to the visited set.
C26_Witness ==
    /\ pc = "returned"
    /\ ret[2] = TRUE
    /\ Cardinality(visited_positions) >= 2
    /\ Cardinality(state_history) > Cardinality(visited_positions)

\* All four cells next to the start are in the grid and blocked, by '#' or
\* by the obstruction.
Walled(g, obstruction) ==
    LET s == Start(g)
    IN \A d \in Sides :
           LET c == <<s[1] + d[1], s[2] + d[2]>>
           IN RefInside(g, c) /\ RefBlocked(g, c, obstruction)

\* C27: with all four neighbours of the start blocked the run makes four
\* right turns in place and returns Looping on the fourth step with
\* visited set {start}; with at most three blocked the guard has left the
\* start cell or the grid by the fourth step.
C27_FourTurns ==
    pc \in {"loop", "returned"} =>
        LET start == Start(grid)
        IN IF Walled(grid, block_pos)
           THEN /\ steps <= 4
                /\ <<x, y>> = start
                /\ pc = "loop" => steps < 4
                /\ pc = "returned" => steps = 4 /\ ret = <<{start}, TRUE>>
           ELSE (steps >= 4 \/ pc = "returned") =>
                   \/ visited_positions # {start}
                   \/ pc = "returned" /\ ret[2] = FALSE /\ steps <= 4

\* Three '#' and the obstruction close the start cell; the run has returned.
C27_Witness ==
    /\ Walled(grid, block_pos)
    /\ block_pos # None
    /\ pc = "returned"
    /\ steps = 4

\* With three neighbours blocked the guard has turned three times and then
\* left the start cell on the fourth step.
C27_WitnessOpen ==
    /\ ~Walled(grid, block_pos)
    /\ pc = "loop"
    /\ steps = 4
    /\ Cardinality(visited_positions) = 2
    /\ Cardinality(state_history) = 5

\* The marker cells of a rectangular grid.
MarkerCells(g) == {c \in Cells(g) : Cell(g, c[1], c[2]) \in Markers}

\* The marker cell that comes first reading the rows top to bottom, each
\* left to right.
FirstMarker(g) ==
    CHOOSE c \in MarkerCells(g) :
        \A e \in MarkerCells(g) : c[2] * width(g) + c[1] <= e[2] * width(g) + e[1]

\* The grid with every marker but the first replaced by '.'.
Erase(g) ==
    [j \in 1 .. Len(g) |->
        [i \in 1 .. Len(g[j]) |->
            IF g[j][i] \in Markers /\ <<i - 1, j - 1>> # FirstMarker(g)
            THEN "." ELSE g[j][i]]]

\* C28: with several markers, simulate_guard and find_loop_positions both
\* start from the first marker in row-major order, and every other marker
\* cell is an empty cell: the runs are those on the grid with the other
\* markers erased, and the other marker cells on the path are candidates.
C28_FirstMarkerWins ==
    /\ (pc = "loop" /\ steps = 0) =>
          /\ <<x, y>> = FirstMarker(grid)
          /\ direction = Cell(grid, x, y)
    /\ pc \in {"pick", "done"} =>
          /\ start_pos = FirstMarker(grid)
          /\ FirstMarker(grid) \notin positions_to_check
    /\ pc = "returned" =>
          /\ ret[1] = Walk(Erase(grid), block_pos).cells
          /\ ret[2] = ~Walk(Erase(grid), block_pos).exits
    /\ pc = "done" =>
          simulated = original_visited \ {FirstMarker(grid)}

\* The guard has walked over the second marker, and the search has tried
\* that cell as an obstruction.
C28_Witness ==
    /\ Cardinality(MarkerCells(grid)) = 2
    /\ pc = "done"
    /\ \E c \in MarkerCells(grid) \ {FirstMarker(grid)} :
          c \in original_visited /\ c \in simulated

\* The lines of the text as the claim reads them: each line of the stripped
\* text without its trailing whitespace.
StrippedLines(t) ==
    LET lines == SplitLines(Strip(t))
    IN [j \in 1 .. Len(lines) |-> RStrip(lines[j])]

\* C25: every input line is stripped of trailing whitespace before the
\* width is taken: the rows of the grid are the lines without their
\* trailing blanks, and the width is the length of the first of them.
C25_LinesStripped ==
    (pc # "read" /\ grid # <<>>) =>
        /\ grid = StrippedLines(text)
        /\ width(grid) = Len(StrippedLines(text)[1])

\* The cells of file k of files all hold its id.
Intact(k) ==
    \A n \in 0 .. files[k][2] - 1 : final_layout[files[k][1] + n + 1] = <<files[k][3]>>

\* C29: the assertion of compact_files never fails, for every disk map in
\* both modes: while files are being moved, every file not yet processed
\* still has its id in all its cells, and so has the rest of the file that
\* is being moved.
C29_AssertionHolds ==
    /\ pc9 # "failed"
    /\ pc9 \in {"next", "moving"} =>
          \A k \in 1 .. Len(files) :
              \/ k > file_index
              \/ k = file_index /\ pc9 = "moving"
              \/ Intact(k)
    /\ pc9 = "moving" =>
          \A n \in block_i .. files[file_index][2] - 1 :
              final_layout[files[file_index][1] + n + 1] = <<files[file_index][3]>>

\* In the whole-file mode a file has been moved into a free space and a
\* second file has passed the assertion and is being moved.
C29_Witness ==
    /\ pc9 = "moving"
    /\ whole_file
    /\ block_i >= 1
    /\ free_spaces # parse_disk_map(disk_map, whole_file).free_spaces

\* All blocks of a file have been moved one by one in the per-block mode.
C29_WitnessBlocks ==
    /\ pc9 = "done"
    /\ ~whole_file
    /\ Len(free_spaces) >= 2
    /\ \A k \in 1 .. Len(free_spaces) : free_spaces[k][2] = 0
    /\ final_layout # parse_disk_map(disk_map, whole_file).final_layout

\* C30: the position get_position_at(t) returns is the position of the
\* robot after t calls of move, and the robot and the returned position are
\* always within 0 <= x < 101, 0 <= y < 103.
C30_MoveMatchesFormula ==
    pc14 # "idle" =>
        /\ robot.p_x \in 0 .. 100 /\ robot.p_y \in 0 .. 102
        /\ answer # None => answer[1] \in 0 .. 100 /\ answer[2] \in 0 .. 102
        /\ pc14 = "done" => <<robot.p_x, robot.p_y>> = answer
        /\ DOMAIN tiles \subseteq 0 .. 101 * 103 - 1

\* A robot has gone off the left and the top edge and come back in on the
\* other side, in several moves.
C30_Witness ==
    /\ pc14 = "done"
    /\ time >= 3
    /\ robot.v_x < 0 /\ robot.v_y < 0
    /\ robot.p_x > 90 /\ robot.p_y > 90
    /\ tiles[robot.p_y * WIDTH + robot.p_x] = 1
    /\ Cardinality(DOMAIN tiles) = time

====
